---- MODULE Spec2Model ----
(***************************************************************************)
(* Model of vanilla_installer/utils/processor.py: the AlbiusRecipe builder *)
(* and Processor.gen_install_recipe with its two partition planners.       *)
(*                                                                         *)
(* Conventions.  A Python str that the code indexes (the disk identifier,  *)
(* a partition path) is a sequence of one-character strings; Str turns it  *)
(* into the text that is emitted.  A value that may be None is a sequence  *)
(* of length at most one: <<>> is None, <<v>> is v.  A dict is a record; a *)
(* dict whose insertion order matters is a sequence of items.              *)
(***************************************************************************)
EXTENDS Integers, Sequences, FiniteSets, TLC

VARIABLES
    finals,       \* gen_install_recipe's argument: the list of final answers
    environ,      \* os.environ: the set of variables that are set
    is_uefi,      \* what Systeminfo.is_uefi() returns
    pc,           \* position in gen_install_recipe, or "api" for a bare builder
    i,            \* index of the final the disk loop is at
    recipe,       \* the AlbiusRecipe object: vars(recipe)
    encrypt,      \* gen_install_recipe's local
    password,     \* gen_install_recipe's local (None is <<>>)
    boot_disk,    \* gen_install_recipe's local (None is <<>>)
    oci_image,    \* gen_install_recipe's local
    partitions,   \* what __find_partitions returned
    files,        \* the fixed-path files written under /tmp
    outfile,      \* the NamedTemporaryFile: <<>> or <<[name, mode, content]>>
    result,       \* the value returned (None is <<>>)
    error,        \* the exception the last call raised, "" for none
    calls         \* the builder calls made so far, in order (history)

vars == <<finals, environ, is_uefi, pc, i, recipe, encrypt, password, boot_disk,
          oci_image, partitions, files, outfile, result, error, calls>>

----------------------------------------------------------------------------
(* Bounds of the model *)

MaxFinals == 2
MaxParts == 2
MaxCalls == 4

----------------------------------------------------------------------------
(* Strings *)

RECURSIVE Str(_)
Str(s) == IF s = <<>> THEN "" ELSE Head(s) \o Str(Tail(s))

Digits == {"0", "1", "2", "3", "4", "5", "6", "7", "8", "9"}

\* re.match(r"[0-9]", c) for a one-character string c
IsDigit(c) == c \in Digits

None == <<>>
Some(v) == <<v>>
IsNone(o) == o = <<>>
\* Python truthiness of an optional str: None and "" are false
Truthy(o) == o # <<>> /\ o[1] # ""

----------------------------------------------------------------------------
(* class AlbiusRecipe *)

AlbiusRecipe ==
    [setup |-> <<>>,
     mountpoints |-> <<>>,
     installation |-> <<>>,
     postInstallation |-> <<>>,
     latePostInstallation |-> <<>>]

add_setup_step(r, disk, operation, params) ==
    [r EXCEPT !.setup =
        Append(@, [disk |-> disk, operation |-> operation, params |-> params])]

add_mountpoint(r, partition, target) ==
    [r EXCEPT !.mountpoints =
        Append(@, [partition |-> partition, target |-> target])]

\* method and source exchanged
set_installation_swapped(r, method, source) ==
    [r EXCEPT !.installation =
        <<[method |-> source,
           source |-> method,
           initramfsPre |-> <<"lpkg --unlock">>,
           initramfsPost |-> <<"lpkg --lock">>]>>]

\* installation is {} before the call; <<>> stands for the empty dict
set_installation(r, method, source) ==
    [r EXCEPT !.installation =
        <<[method |-> method,
           source |-> source,
           initramfsPre |-> <<"lpkg --unlock">>,
           initramfsPost |-> <<"lpkg --lock">>]>>]

PostInstallStep(operation, params, chroot) ==
    [chroot |-> chroot, operation |-> operation, params |-> params]

\* the attribute latePostInstallation exists until merge deletes it
HasLate(r) == "latePostInstallation" \in DOMAIN r

\* add_postinstall_step raises AttributeError exactly when this holds
\* a builder that rejects every append once merged
add_postinstall_step_raises_closed(r, late) == ~HasLate(r)

add_postinstall_step_raises(r, late) == late /\ ~HasLate(r)

add_postinstall_step(r, operation, params, chroot, late) ==
    IF ~late
    THEN [r EXCEPT !.postInstallation =
             Append(@, PostInstallStep(operation, params, chroot))]
    ELSE [r EXCEPT !.latePostInstallation =
             Append(@, PostInstallStep(operation, params, chroot))]

\* merge_postinstall_steps raises AttributeError exactly when this holds
merge_postinstall_steps_raises(r) == ~HasLate(r)

\* a merge that puts the late steps first
merge_postinstall_steps_late_first(r) ==
    LET merged == [r EXCEPT !.postInstallation = r.latePostInstallation \o @]
    IN  [f \in (DOMAIN r) \ {"latePostInstallation"} |-> merged[f]]

merge_postinstall_steps(r) ==
    LET merged == [r EXCEPT !.postInstallation = @ \o r.latePostInstallation]
    IN  [f \in (DOMAIN r) \ {"latePostInstallation"} |-> merged[f]]

\* a call record: [operation, params, chroot, late]
RECURSIVE AddAll(_, _)
AddAll(r, cs) ==
    IF cs = <<>> THEN r
    ELSE AddAll(add_postinstall_step(r, cs[1].operation, cs[1].params,
                                     cs[1].chroot, cs[1].late),
                Tail(cs))

Call(operation, params, chroot, late) ==
    [operation |-> operation, params |-> params, chroot |-> chroot, late |-> late]

----------------------------------------------------------------------------
(* Diskutils.separate_device_and_partn: splits a partition path into the  *)
(* device and the partition number (the trailing digits; an NVMe-style    *)
(* "p" between a digit and the number belongs to neither).                *)

RECURSIVE TrailingDigits(_)
TrailingDigits(s) ==
    IF s = <<>> \/ ~IsDigit(s[Len(s)]) THEN 0
    ELSE 1 + TrailingDigits(SubSeq(s, 1, Len(s) - 1))

separate_device_and_partn(part) ==
    LET n    == TrailingDigits(part)
        rest == SubSeq(part, 1, Len(part) - n)
        dev  == IF n > 0 /\ Len(rest) >= 2 /\ rest[Len(rest)] = "p"
                   /\ IsDigit(rest[Len(rest) - 1])
                THEN SubSeq(rest, 1, Len(rest) - 1)
                ELSE rest
    IN  <<Str(dev), Str(SubSeq(part, Len(part) - n + 1, Len(part)))>>

----------------------------------------------------------------------------
(* Processor.__gen_auto_partition_steps *)

\* what a planner returns, or the exception it raised
Planned(setup_steps, mountpoints, post_install_steps, disk) ==
    [raised |-> "", setup_steps |-> setup_steps, mountpoints |-> mountpoints,
     post_install_steps |-> post_install_steps, boot_disk |-> disk]

Raised(exception) ==
    [raised |-> exception, setup_steps |-> <<>>, mountpoints |-> <<>>,
     post_install_steps |-> <<>>, boot_disk |-> None]

\* line 271: the prefix of the partition paths in the setup steps
setup_part_prefix(disk) ==
    IF IsDigit(disk[Len(disk)]) THEN Str(disk) \o "p" ELSE Str(disk)

\* the two branches exchanged
mount_part_prefix_inverted(disk) ==
    IF ~IsDigit(disk[Len(disk)]) THEN Str(disk) \o "p" ELSE Str(disk)

\* lines 315-318: the prefix of the partition paths in the mountpoints
mount_part_prefix(disk) ==
    IF ~IsDigit(disk[Len(disk)]) THEN Str(disk) ELSE Str(disk) \o "p"

\* the password appended instead of inserted at index 2
lvm_var_args_appended(encrypt_, password_) ==
    IF encrypt_
    THEN <<"vos-var/var", "btrfs", "vos-var", password_[1]>>
    ELSE <<"vos-var/var", "btrfs", "vos-var">>

\* lines 306-309: the parameters of the step that formats vos-var/var
lvm_var_args(encrypt_, password_) ==
    IF encrypt_
    THEN <<"vos-var/var", "btrfs", password_[1], "vos-var">>
    ELSE <<"vos-var/var", "btrfs", "vos-var">>

\* the operation names of the manual planner's setup_partition
lvm_var_operation_misnamed(encrypt_) ==
    IF encrypt_ THEN "luks-format" ELSE "format"

\* line 311
lvm_var_operation(encrypt_) ==
    IF encrypt_ THEN "lvm-luks-format" ELSE "lvm-format"

\* line 308: assert password
auto_assert_fails(encrypt_, password_) == encrypt_ /\ ~Truthy(password_)

\* lines 256-260
auto_removal_steps(d, existing_pvs, existing_vgs) ==
    [k \in DOMAIN existing_vgs |-> <<d, "vgremove", <<existing_vgs[k]>>>>]
    \o [k \in DOMAIN existing_pvs |-> <<d, "pvremove", <<existing_pvs[k]>>>>]

\* lines 262-302
auto_layout_steps(d, part_prefix) ==
    << <<d, "label", <<"gpt">>>>,
       <<d, "mkpart", <<"vos-boot", "ext4", 1, 1025>>>>,
       <<d, "mkpart", <<"vos-efi", "fat32", 1025, 1537>>>>,
       <<d, "setflag", <<"2", "esp", TRUE>>>>,
       <<d, "mkpart", <<"vos-root", "none", 1537, 23556>>>>,
       <<d, "mkpart", <<"vos-var", "none", 23556, -1>>>>,
       <<d, "pvcreate", <<part_prefix \o "3">>>>,
       <<d, "pvcreate", <<part_prefix \o "4">>>>,
       <<d, "vgcreate", <<"vos-root", <<part_prefix \o "3">>>>>>,
       <<d, "vgcreate", <<"vos-var", <<part_prefix \o "4">>>>>>,
       <<d, "lvcreate", <<"init", "vos-root", "linear", 512>>>>,
       <<d, "lvm-format", <<"vos-root/init", "ext4", "vos-init">>>>,
       <<d, "lvcreate", <<"root", "vos-root", "linear", 19456>>>>,
       <<d, "lvcreate", <<"root-meta", "vos-root", "linear", 1024>>>>,
       <<d, "make-thin-pool", <<"vos-root/root", "vos-root/root-meta">>>>,
       <<d, "lvcreate-thin", <<"root-a", "vos-root", 19456, "root">>>>,
       <<d, "lvcreate-thin", <<"root-b", "vos-root", 19456, "root">>>>,
       <<d, "lvm-format", <<"vos-root/root-a", "btrfs", "vos-a">>>>,
       <<d, "lvm-format", <<"vos-root/root-b", "btrfs", "vos-b">>>> >>

\* lines 304-312
auto_var_steps(d, encrypt_, password_) ==
    << <<d, "lvcreate", <<"var", "vos-var", "linear", "100%FREE">>>>,
       <<d, lvm_var_operation(encrypt_), lvm_var_args(encrypt_, password_)>> >>

\* lines 314-327
auto_mountpoints(disk) ==
    << <<mount_part_prefix(disk) \o "1", "/boot">> >>
    \o (IF is_uefi THEN << <<mount_part_prefix(disk) \o "2", "/boot/efi">> >>
        ELSE <<>>)
    \o << <<"/dev/vos-root/root-a", "/">>,
          <<"/dev/vos-root/root-b", "/">>,
          <<"/dev/vos-var/var", "/var">> >>

gen_auto_partition_steps(disk, encrypt_, root_size, existing_pvs, existing_vgs, password_) ==
    IF disk = <<>> THEN Raised("IndexError")
    ELSE IF auto_assert_fails(encrypt_, password_) THEN Raised("AssertionError")
    ELSE Planned(auto_removal_steps(Str(disk), existing_pvs, existing_vgs)
                   \o auto_layout_steps(Str(disk), setup_part_prefix(disk))
                   \o auto_var_steps(Str(disk), encrypt_, password_),
                 auto_mountpoints(disk),
                 <<>>,
                 Some(Str(disk)))

----------------------------------------------------------------------------
(* Processor.__gen_manual_partition_steps.  disk_final is the sequence of *)
(* the dict's items, each [part, values].                                  *)

\* Python's == between a str and a list is False
str_eq_list(s, l) == FALSE

\* line 349: vg not in vgs_to_remove, where vgs_to_remove holds [vg, disk] lists
vg_in_vgs_to_remove(vg, vgs_to_remove) ==
    \E k \in DOMAIN vgs_to_remove : str_eq_list(vg, vgs_to_remove[k])

\* lines 340-350: the loop that collects what to remove; acc = [vgs, pvs]
RECURSIVE collect_removals(_, _)
collect_removals(items, acc) ==
    IF items = <<>> THEN acc
    ELSE LET values == items[1].values
             pv == values.existing_pv
             vg == values.existing_vg
         IN  IF IsNone(pv) THEN collect_removals(Tail(items), acc)
             ELSE LET disk == separate_device_and_partn(pv[1])[1]
                      pvs == Append(acc.pvs, <<Str(pv[1]), disk>>)
                      vgs == IF ~IsNone(vg) /\ ~vg_in_vgs_to_remove(vg[1], acc.vgs)
                             THEN Append(acc.vgs, <<vg[1], disk>>)
                             ELSE acc.vgs
                  IN  collect_removals(Tail(items), [vgs |-> vgs, pvs |-> pvs])

\* only the entries with a handled mount target have their LVM objects removed
manual_removal_steps_handled_only(disk_final) ==
    LET handled == SelectSeq(disk_final,
                       LAMBDA item : item.values.mp \in {"/", "/boot", "/boot/efi",
                                                         "/var", "swap"})
        rem == collect_removals(handled, [vgs |-> <<>>, pvs |-> <<>>])
    IN  [k \in DOMAIN rem.vgs |-> <<rem.vgs[k][2], "vgremove", <<rem.vgs[k][1]>>>>]
        \o [k \in DOMAIN rem.pvs |-> <<rem.pvs[k][2], "pvremove", <<rem.pvs[k][1]>>>>]

\* lines 352-355
manual_removal_steps(disk_final) ==
    LET rem == collect_removals(disk_final, [vgs |-> <<>>, pvs |-> <<>>])
    IN  [k \in DOMAIN rem.vgs |-> <<rem.vgs[k][2], "vgremove", <<rem.vgs[k][1]>>>>]
        \o [k \in DOMAIN rem.pvs |-> <<rem.pvs[k][2], "pvremove", <<rem.pvs[k][1]>>>>]

\* line 371: assert password is not None
setup_partition_assert_fails(encrypt_, password_) == encrypt_ /\ IsNone(password_)

\* lines 365-377: the nested setup_partition, as the change it makes to acc
setup_partition(acc, part, values, part_disk, part_number, part_name, encrypt_, password_) ==
    LET format_args ==
            <<part_number, values.fs>>
            \o (IF encrypt_ THEN <<password_[1]>> ELSE <<>>)
            \o <<part_name>>
        operation == IF encrypt_ THEN "luks-format" ELSE "format"
    IN  [acc EXCEPT
            !.setup_steps = Append(@, <<part_disk, operation, format_args>>),
            !.mountpoints = Append(@, <<Str(part), values.mp>>)]

\* line 394.  values.size is kept in MiB (the byte size is size * 1_048_576,
\* beyond what TLC's integers hold), so the division by 1_048_576 is done
thin_size(values) == values.size - 1024 - 512 - 1028

\* the thin pool made before its data volume exists
manual_root_steps_pool_early(part_disk, part, values) ==
    << <<part_disk, "pvcreate", <<Str(part)>>>>,
       <<part_disk, "vgcreate", <<"vos-root", <<Str(part)>>>>>>,
       <<part_disk, "lvcreate", <<"init", "vos-root", "linear", 512>>>>,
       <<part_disk, "lvm-format", <<"vos-root/init", "ext4", "vos-init">>>>,
       <<part_disk, "lvcreate", <<"root-meta", "vos-root", "linear", 1024>>>>,
       <<part_disk, "make-thin-pool", <<"vos-root/root", "vos-root/root-meta">>>>,
       <<part_disk, "lvcreate", <<"root", "vos-root", "linear", thin_size(values)>>>>,
       <<part_disk, "lvcreate-thin", <<"root-a", "vos-root", thin_size(values), "root">>>>,
       <<part_disk, "lvcreate-thin", <<"root-b", "vos-root", thin_size(values), "root">>>>,
       <<part_disk, "lvm-format", <<"vos-root/root-a", "btrfs", "vos-a">>>>,
       <<part_disk, "lvm-format", <<"vos-root/root-b", "btrfs", "vos-b">>>> >>

\* lines 380-427: the setup steps of the "/" entry
manual_root_steps(part_disk, part, values) ==
    << <<part_disk, "pvcreate", <<Str(part)>>>>,
       <<part_disk, "vgcreate", <<"vos-root", <<Str(part)>>>>>>,
       <<part_disk, "lvcreate", <<"init", "vos-root", "linear", 512>>>>,
       <<part_disk, "lvm-format", <<"vos-root/init", "ext4", "vos-init">>>>,
       <<part_disk, "lvcreate", <<"root-meta", "vos-root", "linear", 1024>>>>,
       <<part_disk, "lvcreate", <<"root", "vos-root", "linear", thin_size(values)>>>>,
       <<part_disk, "make-thin-pool", <<"vos-root/root", "vos-root/root-meta">>>>,
       <<part_disk, "lvcreate-thin", <<"root-a", "vos-root", thin_size(values), "root">>>>,
       <<part_disk, "lvcreate-thin", <<"root-b", "vos-root", thin_size(values), "root">>>>,
       <<part_disk, "lvm-format", <<"vos-root/root-a", "btrfs", "vos-a">>>>,
       <<part_disk, "lvm-format", <<"vos-root/root-b", "btrfs", "vos-b">>>> >>

\* root-b recorded before root-a
manual_root_mountpoints_swapped ==
    << <<"/dev/vos-root/root-b", "/">>, <<"/dev/vos-root/root-a", "/">> >>

\* lines 428-429
manual_root_mountpoints ==
    << <<"/dev/vos-root/root-a", "/">>, <<"/dev/vos-root/root-b", "/">> >>

\* lines 362-439: one iteration of the loop over the partitions
manual_partition(acc, item, encrypt_, password_) ==
    LET part == item.part
        values == item.values
        sep == separate_device_and_partn(part)
        part_disk == sep[1]
        part_number == sep[2]
    IN  IF values.mp = "/"
        THEN [acc EXCEPT
                !.setup_steps = @ \o manual_root_steps(part_disk, part, values),
                !.mountpoints = @ \o manual_root_mountpoints]
        ELSE IF values.mp = "/boot"
        THEN [setup_partition(acc, part, values, part_disk, part_number,
                              "vos-boot", FALSE, None)
                EXCEPT !.boot_disk = Some(part_disk)]
        ELSE IF values.mp = "/boot/efi"
        THEN [setup_partition(acc, part, values, part_disk, part_number,
                              "vos-efi", FALSE, None)
                EXCEPT !.setup_steps =
                    Append(@, <<part_disk, "setflag", <<part_number, "esp", TRUE>>>>)]
        ELSE IF values.mp = "/var"
        THEN IF setup_partition_assert_fails(encrypt_, password_)
             THEN Raised("AssertionError")
             ELSE setup_partition(acc, part, values, part_disk, part_number,
                                  "vos-var", encrypt_, password_)
        ELSE IF values.mp = "swap"
        THEN [acc EXCEPT
                !.post_install_steps = Append(@, <<"swapon", <<Str(part)>>, TRUE>>)]
        ELSE acc

RECURSIVE manual_loop(_, _, _, _)
manual_loop(acc, items, encrypt_, password_) ==
    IF items = <<>> \/ acc.raised # "" THEN acc
    ELSE manual_loop(manual_partition(acc, items[1], encrypt_, password_),
                     Tail(items), encrypt_, password_)

gen_manual_partition_steps(disk_final, encrypt_, password_) ==
    manual_loop(Planned(manual_removal_steps(disk_final), <<>>, <<>>, None),
                disk_final, encrypt_, password_)

----------------------------------------------------------------------------
(* Processor.__find_partitions *)

RECURSIVE find_partitions_loop(_, _)
find_partitions_loop(mnts, acc) ==
    IF mnts = <<>> THEN acc
    ELSE LET mnt == mnts[1]
             next ==
                IF mnt.target = "/boot" THEN [acc EXCEPT !.boot = mnt.partition]
                ELSE IF mnt.target = "/boot/efi" THEN [acc EXCEPT !.efi = mnt.partition]
                ELSE IF mnt.target = "/"
                THEN IF acc.root_a = "" THEN [acc EXCEPT !.root_a = mnt.partition]
                     ELSE [acc EXCEPT !.root_b = mnt.partition]
                ELSE IF mnt.target = "/var" THEN [acc EXCEPT !.var = mnt.partition]
                ELSE acc
         IN  find_partitions_loop(Tail(mnts), next)

NoPartitions == [boot |-> "", efi |-> "", root_a |-> "", root_b |-> "", var |-> ""]

find_partitions(r) == find_partitions_loop(r.mountpoints, NoPartitions)

----------------------------------------------------------------------------
(* Module constants *)

_BASE_DIRS == <<"boot", "dev", "home", "media", "mnt", "var", "opt",
                "part-future", "proc", "root", "run", "srv", "sys", "tmp">>
_REL_LINKS == <<"usr", "etc", "usr/bin", "usr/lib",
                "usr/lib32", "usr/lib64", "usr/libx32", "usr/sbin">>
_REL_SYSTEM_LINKS == <<"dev", "proc", "run", "srv", "sys", "media">>

\* [source, destination, fs_type, options, filename]; a filename is the
\* sequence of its pieces, a backslash being a piece of its own
systemd_mount_unit_contents ==
    << <<"/var/home", "/home", "none", "bind", <<"home.mount">>>>,
       <<"/var/opt", "/opt", "none", "bind", <<"opt.mount">>>>,
       <<"/var/lib/abroot/etc/vos-a/locales", "/.system/usr/lib/locale", "none",
         "bind", <<"\\", "x2esystem-usr-lib-locale.mount">>>>,
       <<"overlay", "/.system/etc", "overlay",
         "lowerdir=/.system/etc,upperdir=/var/lib/abroot/etc/vos-a,workdir=/var/lib/abroot/etc/vos-a-work",
         <<"\\", "x2esystem-etc.mount">>>> >>

\* filename.replace("\\", "\\\\")
escape_backslashes(filename) ==
    Str([k \in DOMAIN filename |->
            IF filename[k] = "\\" THEN "\\\\" ELSE filename[k]])

\* sys_recipe: the images and the default root size
images == [default |-> "ghcr.io/vanilla-os/desktop:main",
           nvidia |-> "ghcr.io/vanilla-os/nvidia:main",
           vm |-> "ghcr.io/vanilla-os/vm:main"]
default_root_size == 19456

----------------------------------------------------------------------------
(* Processor.gen_install_recipe: the post-install steps it adds *)

\* lines 537-556: one add_postinstall_step call per systemd mount unit
systemd_unit_call(systemd_mount) ==
    LET filename_escaped == escape_backslashes(systemd_mount[5])
    IN  Call("shell",
             <<"cp /tmp/" \o filename_escaped \o " /mnt/a/etc/systemd/system/"
                   \o filename_escaped,
               "mkdir -p /mnt/a/etc/systemd/system/local-fs.target.wants",
               "ln -s ../" \o filename_escaped
                   \o " /mnt/a/etc/systemd/system/local-fs.target.wants/"
                   \o filename_escaped>>,
             FALSE, FALSE)

systemd_unit_calls ==
    [k \in DOMAIN systemd_mount_unit_contents |->
        systemd_unit_call(systemd_mount_unit_contents[k])]

systemd_unit_files ==
    {"/tmp/" \o Str(systemd_mount_unit_contents[k][5]) :
        k \in DOMAIN systemd_mount_unit_contents}

MkdirBase(path) == "mkdir -p /mnt/a/" \o path
LnRel(path) == "ln -rs /mnt/a/.system/" \o path \o " /mnt/a/"
RmSystem(path) == "rm -rf /mnt/a/.system/" \o path
LnSystem(path) == "ln -rs /mnt/a/" \o path \o " /mnt/a/.system/"

\* lines 560-585
adapt_root_call(encrypt_, parts) ==
    LET var_label == IF encrypt_
                     THEN "/dev/mapper/luks-$(lsblk -d -y -n -o UUID " \o parts.var \o ")"
                     ELSE parts.var
    IN  Call("shell",
             <<"umount /mnt/a/var",
               "mkdir /mnt/a/tmp-boot",
               "cp -r /mnt/a/boot /mnt/a/tmp-boot",
               "umount -l " \o parts.boot,
               "mkdir -p /mnt/a/.system",
               "mv /mnt/a/* /mnt/a/.system/",
               "mv /mnt/a/.system/tmp-boot/boot/* /mnt/a/.system/boot",
               "rm -rf /mnt/a/.system/tmp-boot">>
             \o [k \in DOMAIN _BASE_DIRS |-> MkdirBase(_BASE_DIRS[k])]
             \o [k \in DOMAIN _REL_LINKS |-> LnRel(_REL_LINKS[k])]
             \o [k \in DOMAIN _REL_SYSTEM_LINKS |-> RmSystem(_REL_SYSTEM_LINKS[k])]
             \o [k \in DOMAIN _REL_SYSTEM_LINKS |-> LnSystem(_REL_SYSTEM_LINKS[k])]
             \o <<"mount " \o var_label \o " /mnt/a/var",
                  "mount " \o parts.boot \o " /mnt/a/boot"
                    \o (IF parts.efi # ""
                        THEN " && mount " \o parts.efi \o " /mnt/a/boot/efi"
                        ELSE "")>>,
             FALSE, FALSE)

\* the default user added as an ordinary step, not a late one
default_user_call_not_late ==
    Call("adduser", <<"vanilla", "vanilla", <<"sudo", "lpadmin">>, "vanilla">>,
         TRUE, FALSE)

\* lines 587-600
default_user_call ==
    Call("adduser", <<"vanilla", "vanilla", <<"sudo", "lpadmin">>, "vanilla">>,
         TRUE, TRUE)

\* lines 602-612
autologin_call ==
    Call("shell",
         <<"mkdir -p /etc/gdm3",
           "echo '[daemon]\nAutomaticLogin=vanilla\nAutomaticLoginEnable=True' > /etc/gdm3/daemon.conf",
           "mkdir -p /home/vanilla/.config/dconf",
           "chmod 700 /home/vanilla/.config/dconf">>,
         TRUE, FALSE)

\* lines 614-622
first_setup_session_call ==
    Call("shell",
         <<"mkdir -p /var/lib/AccountsService/users",
           "echo '[User]\nSession=firstsetup' > /var/lib/AccountsService/users/vanilla">>,
         TRUE, FALSE)

\* lines 624-633
autostart_call ==
    Call("shell",
         <<"mkdir -p /home/vanilla/.config/autostart",
           "cp /usr/share/applications/org.vanillaos.FirstSetup.desktop /home/vanilla/.config/autostart">>,
         TRUE, TRUE)

\* lines 635-665
grub_calls(boot_disk_, parts) ==
    LET grub_type == IF is_uefi THEN "efi" ELSE "bios"
    IN  << Call("grub-install", <<"/mnt/a/boot", boot_disk_, grub_type, parts.efi>>,
                FALSE, FALSE),
           Call("grub-install", <<"/boot", boot_disk_, grub_type, parts.efi>>,
                TRUE, FALSE),
           Call("grub-mkconfig", <<"/boot/grub/grub.cfg">>, TRUE, FALSE),
           Call("shell", <<"cp /tmp/boot-grub.cfg /mnt/a/boot/grub/grub.cfg">>,
                FALSE, FALSE),
           Call("shell", <<"umount -l /mnt/a/boot", "mkdir -p /mnt/a/boot/grub">>,
                FALSE, FALSE),
           Call("grub-mkconfig", <<"/boot/grub/grub.cfg">>, TRUE, FALSE) >>

\* lines 667-679
init_files_call ==
    Call("shell",
         <<"mkdir /.system/boot/init",
           "mount /dev/vos-root/init /.system/boot/init",
           "mkdir /.system/boot/init/vos-a",
           "mkdir /.system/boot/init/vos-b",
           "mv /.system/boot/vmlinuz* /.system/boot/init/vos-a",
           "mv /.system/boot/initrd* /.system/boot/init/vos-a">>,
         TRUE, FALSE)

\* lines 689-700
abroot_cfg_call(parts) ==
    Call("shell",
         <<"BOOT_UUID=$(lsblk -d -n -o UUID " \o parts.boot \o ")"
           \o " ROOTA_UUID=$(lsblk -d -n -o UUID " \o parts.root_a \o ")"
           \o " KERNEL_VERSION=$(ls -1 /mnt/a/usr/lib/modules | sed '1p;d')"
           \o " envsubst < /tmp/abroot.cfg > /mnt/a/.system/boot/init/vos-a/abroot.cfg"
           \o " '$BOOT_UUID $ROOTA_UUID $KERNEL_VERSION'">>,
         FALSE, FALSE)

\* lines 702-713
fstab_call(encrypt_, parts) ==
    LET var_location_prefix == IF encrypt_ THEN "/dev/mapper/luks-" ELSE "UUID="
        fstab_regex == "/^[^#]\\S+\\s+\\/\\S+\\s+.+$/d"
    IN  Call("shell",
             <<"ROOTB_UUID=$(lsblk -d -y -n -o UUID " \o parts.root_b
                 \o ") && sed -i \"/UUID=$ROOTB_UUID/d\" /mnt/a/etc/fstab",
               "sed -i -r '" \o fstab_regex \o "' /mnt/a/etc/fstab",
               "echo '/.system/usr  /.system/usr  none  bind,ro' >> /mnt/a/etc/fstab",
               "VAR_UUID=$(lsblk -d -n -o UUID " \o parts.var \o ") && echo \""
                 \o var_location_prefix
                 \o "$VAR_UUID /var  auto  defaults  0  0\" >> /mnt/a/etc/fstab">>,
             FALSE, FALSE)

\* lines 715-732
etc_overlay_call ==
    Call("shell",
         <<"mv /.system/home /var",
           "mv /.system/opt /var",
           "mv /.system/tmp /var",
           "mkdir -p /var/lib/abroot/etc/vos-a /var/lib/abroot/etc/vos-b /var/lib/abroot/etc/vos-a-work /var/lib/abroot/etc/vos-b-work",
           "mount -t overlay overlay -o lowerdir=/.system/etc,upperdir=/var/lib/abroot/etc/vos-a,workdir=/var/lib/abroot/etc/vos-a-work /etc",
           "mv /var/storage /var/lib/abroot/",
           "mount -o bind /var/home /home",
           "mount -o bind /var/opt /opt",
           "mount -o bind,ro /.system/usr /usr",
           "mkdir -p /var/lib/abroot/etc/vos-a/locales",
           "mount -o bind /var/lib/abroot/etc/vos-a/locales /usr/lib/locale">>,
         TRUE, FALSE)

\* lines 558-732: the calls made when VANILLA_SKIP_POSTINSTALL is not set
layout_calls(encrypt_, boot_disk_, parts) ==
    <<adapt_root_call(encrypt_, parts),
      default_user_call,
      autologin_call,
      first_setup_session_call,
      autostart_call>>
    \o grub_calls(boot_disk_, parts)
    \o <<init_files_call,
         abroot_cfg_call(parts),
         fstab_call(encrypt_, parts),
         etc_overlay_call>>

\* lines 651, 682: the files that block writes
layout_files == {"/tmp/boot-grub.cfg", "/tmp/abroot.cfg"}

----------------------------------------------------------------------------
(* Processor.gen_install_recipe: the loops over the finals *)

\* lines 485-488: the loop that reads the encryption answer;
\* acc = [encrypt, password, raised]
RECURSIVE encryption_loop(_, _)
encryption_loop(fs, acc) ==
    IF fs = <<>> \/ acc.raised # "" THEN acc
    ELSE LET final == fs[1]
         IN  IF "encryption" \in DOMAIN final
             THEN IF ~final.encryption.use_encryption
                  THEN encryption_loop(Tail(fs),
                           [encrypt |-> FALSE, password |-> None, raised |-> ""])
                  ELSE IF "encryption_key" \in DOMAIN final.encryption
                  THEN encryption_loop(Tail(fs),
                           [encrypt |-> TRUE,
                            password |-> final.encryption.encryption_key,
                            raised |-> ""])
                  ELSE [acc EXCEPT !.raised = "KeyError"]
             ELSE encryption_loop(Tail(fs), acc)

\* lines 495-507: the planner the disk answer selects
plan_disk(disk_answer, encrypt_, password_) ==
    IF "auto" \in DOMAIN disk_answer
    THEN gen_auto_partition_steps(disk_answer.auto.disk, encrypt_, default_root_size,
                                  disk_answer.auto.pvs_to_remove,
                                  disk_answer.auto.vgs_to_remove, password_)
    ELSE gen_manual_partition_steps(disk_answer.parts, encrypt_, password_)

RECURSIVE add_setup_steps(_, _)
add_setup_steps(r, steps) ==
    IF steps = <<>> THEN r
    ELSE add_setup_steps(add_setup_step(r, steps[1][1], steps[1][2], steps[1][3]),
                         Tail(steps))

RECURSIVE add_mountpoints(_, _)
add_mountpoints(r, mounts) ==
    IF mounts = <<>> THEN r
    ELSE add_mountpoints(add_mountpoint(r, mounts[1][1], mounts[1][2]), Tail(mounts))

\* lines 509-515: the planner's result goes into the recipe
add_part_info(r, part_info) ==
    AddAll(add_mountpoints(add_setup_steps(r, part_info.setup_steps),
                           part_info.mountpoints),
           [k \in DOMAIN part_info.post_install_steps |->
               Call(part_info.post_install_steps[k][1],
                    part_info.post_install_steps[k][2],
                    part_info.post_install_steps[k][3], FALSE)])

\* vm given priority: nvidia does not replace the vm image
select_image_vm_priority(final, image) ==
    IF "nvidia" \in DOMAIN final
    THEN IF final.nvidia["use-proprietary"] /\ image # images.vm
         THEN images.nvidia ELSE image
    ELSE IF "vm" \in DOMAIN final
    THEN IF final.vm["use-vm-tools"] THEN images.vm ELSE image
    ELSE image

\* lines 516-521: the image after one final, given the image before it
select_image(final, image) ==
    IF "nvidia" \in DOMAIN final
    THEN IF final.nvidia["use-proprietary"] THEN images.nvidia ELSE image
    ELSE IF "vm" \in DOMAIN final
    THEN IF final.vm["use-vm-tools"] THEN images.vm ELSE image
    ELSE image

KeyboardCall(k) == Call("keyboard", <<k.layout, k.model, k.variant>>, TRUE, FALSE)

\* a mapper that also turns a users answer into an adduser step
final_calls_with_users(final) ==
    (IF "timezone" \in DOMAIN final
     THEN <<Call("timezone",
                 <<final.timezone.region \o "/" \o final.timezone.zone>>,
                 TRUE, FALSE)>>
     ELSE <<>>)
    \o (IF "language" \in DOMAIN final
        THEN <<Call("locale", <<final.language>>, TRUE, FALSE)>>
        ELSE <<>>)
    \o (IF "keyboard" \in DOMAIN final
        THEN [k \in DOMAIN final.keyboard |-> KeyboardCall(final.keyboard[k])]
        ELSE <<>>)
    \o (IF "users" \in DOMAIN final
        THEN <<Call("adduser",
                    <<final.users.username, final.users.fullname,
                      <<"sudo", "lpadmin">>, final.users.password>>,
                    TRUE, FALSE)>>
        ELSE <<>>)

\* lines 737-757: the calls one final gives rise to
final_calls(final) ==
    (IF "timezone" \in DOMAIN final
     THEN <<Call("timezone",
                 <<final.timezone.region \o "/" \o final.timezone.zone>>,
                 TRUE, FALSE)>>
     ELSE <<>>)
    \o (IF "language" \in DOMAIN final
        THEN <<Call("locale", <<final.language>>, TRUE, FALSE)>>
        ELSE <<>>)
    \o (IF "keyboard" \in DOMAIN final
        THEN [k \in DOMAIN final.keyboard |-> KeyboardCall(final.keyboard[k])]
        ELSE <<>>)

RECURSIVE finals_calls(_)
finals_calls(fs) ==
    IF fs = <<>> THEN <<>> ELSE final_calls(fs[1]) \o finals_calls(Tail(fs))

\* lines 768-777
abimage_call ==
    Call("shell",
         <<"IMAGE_DIGEST=$(cat /mnt/a/.oci_digest) envsubst < /tmp/abimage.abr > /mnt/a/abimage.abr '$IMAGE_DIGEST'">>,
         FALSE, FALSE)

\* lines 779-785
chown_home_call ==
    Call("shell", <<"chown -R vanilla:vanilla /home/vanilla">>, TRUE, TRUE)

\* lines 787-795
thin_provisioning_call ==
    Call("shell",
         <<"mkdir -p /etc/abroot",
           "echo \"$(head -n-1 /usr/share/abroot/abroot.json),\n    \\\"thinProvisioning\\\": true,\n    \\\"thinInitVolume\\\": \\\"vos-init\\\"\n}\" > /etc/abroot/abroot.json">>,
         TRUE, FALSE)

\* the name tempfile.NamedTemporaryFile picks
TempFileName == "/tmp/tmpXXXXXXXX"
\* 0o755
Mode0755 == 493

----------------------------------------------------------------------------
(* Processor.gen_install_recipe: its steps *)

Raise(exception) ==
    /\ pc' = "raised"
    /\ error' = exception

\* lines 476-490
SetupEncryption ==
    /\ pc = "start"
    /\ LET e == encryption_loop(finals, [encrypt |-> FALSE, password |-> None,
                                         raised |-> ""])
       IN  IF e.raised # ""
           THEN /\ Raise(e.raised)
                /\ UNCHANGED <<encrypt, password>>
           ELSE /\ encrypt' = e.encrypt
                /\ password' = e.password
                /\ pc' = "disks"
                /\ UNCHANGED error
    /\ UNCHANGED <<finals, environ, is_uefi, i, recipe, boot_disk, oci_image,
                   partitions, files, outfile, result, calls>>

\* lines 493-521: one iteration of the loop over the finals
SetupDisks ==
    /\ pc = "disks"
    /\ i <= Len(finals)
    /\ LET final == finals[i]
       IN  IF "disk" \in DOMAIN final
           THEN LET part_info == plan_disk(final.disk, encrypt, password)
                IN  IF part_info.raised # ""
                    THEN /\ Raise(part_info.raised)
                         /\ UNCHANGED <<i, recipe, boot_disk, oci_image>>
                    ELSE /\ recipe' = add_part_info(recipe, part_info)
                         /\ boot_disk' = part_info.boot_disk
                         /\ i' = i + 1
                         /\ UNCHANGED <<pc, error, oci_image>>
           ELSE /\ oci_image' = select_image(final, oci_image)
                /\ i' = i + 1
                /\ UNCHANGED <<pc, error, recipe, boot_disk>>
    /\ UNCHANGED <<finals, environ, is_uefi, encrypt, password, partitions, files,
                   outfile, result, calls>>

\* lines 523-533
Installation ==
    /\ pc = "disks"
    /\ i > Len(finals)
    /\ recipe' = set_installation(recipe, "oci", oci_image)
    /\ partitions' = find_partitions(recipe)
    /\ pc' = "units"
    /\ UNCHANGED <<finals, environ, is_uefi, i, encrypt, password, boot_disk,
                   oci_image, files, outfile, result, error, calls>>

\* lines 535-556
CreateSystemdUnits ==
    /\ pc = "units"
    /\ files' = files \cup systemd_unit_files
    /\ recipe' = AddAll(recipe, systemd_unit_calls)
    /\ pc' = "layout"
    /\ UNCHANGED <<finals, environ, is_uefi, i, encrypt, password, boot_disk,
                   oci_image, partitions, outfile, result, error, calls>>

\* lines 558-732
Layout ==
    /\ pc = "layout"
    /\ IF "VANILLA_SKIP_POSTINSTALL" \notin environ
       THEN /\ recipe' = AddAll(recipe, layout_calls(encrypt, boot_disk, partitions))
            /\ files' = files \cup layout_files
       ELSE UNCHANGED <<recipe, files>>
    /\ pc' = "finals"
    /\ UNCHANGED <<finals, environ, is_uefi, i, encrypt, password, boot_disk,
                   oci_image, partitions, outfile, result, error, calls>>

\* lines 734-757
MapFinals ==
    /\ pc = "finals"
    /\ recipe' = AddAll(recipe,
                        <<Call("hostname", <<"vanilla">>, TRUE, FALSE)>>
                        \o finals_calls(finals))
    /\ pc' = "abimage"
    /\ UNCHANGED <<finals, environ, is_uefi, i, encrypt, password, boot_disk,
                   oci_image, partitions, files, outfile, result, error, calls>>

\* lines 759-795
Finish ==
    /\ pc = "abimage"
    /\ files' = files \cup {"/tmp/abimage.abr"}
    /\ recipe' = AddAll(recipe,
                        <<abimage_call, chown_home_call, thin_provisioning_call>>)
    /\ pc' = "merge"
    /\ UNCHANGED <<finals, environ, is_uefi, i, encrypt, password, boot_disk,
                   oci_image, partitions, outfile, result, error, calls>>

\* line 797
Merge ==
    /\ pc = "merge"
    /\ recipe' = merge_postinstall_steps(recipe)
    /\ pc' = "output"
    /\ UNCHANGED <<finals, environ, is_uefi, i, encrypt, password, boot_disk,
                   oci_image, partitions, files, outfile, result, error, calls>>

\* the dry run logs the recipe but goes on to write it
Output_no_early_return ==
    /\ pc = "output"
    /\ outfile' = Some([name |-> TempFileName, mode |-> Mode0755,
                        content |-> recipe])
    /\ result' = IF "VANILLA_FAKE" \in environ THEN None ELSE Some(TempFileName)
    /\ pc' = "returned"
    /\ UNCHANGED <<finals, environ, is_uefi, i, recipe, encrypt, password,
                   boot_disk, oci_image, partitions, files, error, calls>>

\* lines 799-811
Output ==
    /\ pc = "output"
    /\ IF "VANILLA_FAKE" \in environ
       THEN /\ result' = None
            /\ UNCHANGED outfile
       ELSE /\ outfile' = Some([name |-> TempFileName, mode |-> Mode0755,
                                content |-> recipe])
            /\ result' = Some(TempFileName)
    /\ pc' = "returned"
    /\ UNCHANGED <<finals, environ, is_uefi, i, recipe, encrypt, password,
                   boot_disk, oci_image, partitions, files, error, calls>>

----------------------------------------------------------------------------
(* The builder used on its own: any sequence of its two post-install calls *)

BuilderSteps ==
    {Call("shell", <<"true">>, FALSE, late) : late \in BOOLEAN}
    \cup {Call("hostname", <<"vanilla">>, TRUE, late) : late \in BOOLEAN}

\* a history entry: the call, whether it raised, and postInstallation after it
Entry(kind, call, raised, r) ==
    [kind |-> kind, call |-> call, raised |-> raised, post |-> r.postInstallation]

CallAddPostinstallStep ==
    /\ pc = "api"
    /\ Len(calls) < MaxCalls
    /\ \E c \in BuilderSteps :
          IF add_postinstall_step_raises(recipe, c.late)
          THEN /\ error' = "AttributeError"
               /\ UNCHANGED recipe
               /\ calls' = Append(calls, Entry("add", c, TRUE, recipe))
          ELSE /\ error' = ""
               /\ recipe' = add_postinstall_step(recipe, c.operation, c.params,
                                                 c.chroot, c.late)
               /\ calls' = Append(calls, Entry("add", c, FALSE, recipe'))
    /\ UNCHANGED <<finals, environ, is_uefi, pc, i, encrypt, password, boot_disk,
                   oci_image, partitions, files, outfile, result>>

CallMergePostinstallSteps ==
    /\ pc = "api"
    /\ Len(calls) < MaxCalls
    /\ IF merge_postinstall_steps_raises(recipe)
       THEN /\ error' = "AttributeError"
            /\ UNCHANGED recipe
            /\ calls' = Append(calls, Entry("merge", <<>>, TRUE, recipe))
       ELSE /\ error' = ""
            /\ recipe' = merge_postinstall_steps(recipe)
            /\ calls' = Append(calls, Entry("merge", <<>>, FALSE, recipe'))
    /\ UNCHANGED <<finals, environ, is_uefi, pc, i, encrypt, password, boot_disk,
                   oci_image, partitions, files, outfile, result>>

----------------------------------------------------------------------------
(* Inputs *)

sda == <<"s", "d", "a">>
sdb == <<"s", "d", "b">>
nvme0n1 == <<"n", "v", "m", "e", "0", "n", "1">>

Encryption(use, key) ==
    [encryption |-> [use_encryption |-> use, encryption_key |-> key]]

EncryptionAnswers ==
    {Encryption(TRUE, Some("secret")),
     Encryption(TRUE, Some("")),
     Encryption(TRUE, None),
     Encryption(FALSE, Some("secret"))}

Auto(disk, pvs, vgs) ==
    [disk |-> [auto |-> [disk |-> disk, pvs_to_remove |-> pvs,
                         vgs_to_remove |-> vgs]]]

AutoAnswers ==
    {Auto(sda, <<>>, <<>>),
     Auto(nvme0n1, <<>>, <<>>),
     Auto(sda, <<"sda3", "sda4">>, <<"vos-root", "vos-var">>)}

MountTargets == {"/", "/boot", "/boot/efi", "/var", "swap", "/home"}

FsOf(mp) ==
    IF mp = "/boot" THEN "ext4"
    ELSE IF mp = "/boot/efi" THEN "fat32"
    ELSE IF mp = "swap" THEN "linux-swap"
    ELSE "btrfs"

\* the partitions a manual answer may name, in the order it names them
PartNames ==
    << sda \o <<"1">>, sda \o <<"2">>, nvme0n1 \o <<"p", "3">>,
       sdb \o <<"1">>, sdb \o <<"2">> >>

Existing ==
    {[existing_pv |-> None, existing_vg |-> None],
     [existing_pv |-> Some(sda \o <<"2">>), existing_vg |-> Some("vg0")],
     [existing_pv |-> Some(sdb \o <<"1">>), existing_vg |-> Some("vg0")],
     [existing_pv |-> Some(sdb \o <<"2">>), existing_vg |-> None]}

PartValues ==
    {[fs |-> FsOf(mp), mp |-> mp, size |-> 20480,
      existing_pv |-> e.existing_pv, existing_vg |-> e.existing_vg] :
        mp \in MountTargets, e \in Existing}

Manual(parts) == [disk |-> [parts |-> parts]]

\* no physical volume is the existing one of two partitions
DistinctPvs(v) ==
    \A j, k \in DOMAIN v :
        (j # k /\ ~IsNone(v[j].existing_pv)) => v[j].existing_pv # v[k].existing_pv

\* every manual answer of one to MaxParts partitions
ManualAnswers ==
    UNION {{Manual([k \in 1..n |-> [part |-> PartNames[k], values |-> v[k]]]) :
               v \in {w \in [1..n -> PartValues] : DistinctPvs(w)}} :
           n \in 1..MaxParts}

PlainValues(mp) ==
    [fs |-> FsOf(mp), mp |-> mp, size |-> 20480,
     existing_pv |-> None, existing_vg |-> None]

\* the manual answers of the general specification
SomeManualAnswers ==
    {Manual(<< [part |-> PartNames[1], values |-> PlainValues("/boot")],
               [part |-> PartNames[2], values |-> PlainValues("/boot/efi")],
               [part |-> PartNames[3], values |-> PlainValues("/")],
               [part |-> PartNames[4], values |-> PlainValues("/var")] >>),
     Manual(<< [part |-> PartNames[1], values |-> PlainValues("/var")],
               [part |-> PartNames[2], values |-> PlainValues("swap")] >>),
     Manual(<< [part |-> PartNames[1], values |-> PlainValues("/")],
               [part |-> PartNames[2], values |-> PlainValues("/")] >>)}

ImageAnswers ==
    {[nvidia |-> [n \in {"use-proprietary"} |-> b]] : b \in BOOLEAN}
    \cup {[vm |-> [n \in {"use-vm-tools"} |-> b]] : b \in BOOLEAN}

alex == [username |-> "alex", fullname |-> "Alex", password |-> "x"]

OtherAnswers ==
    {[users |-> alex],
     [users |-> [username |-> "vanilla", fullname |-> "vanilla",
                 password |-> "vanilla"]],
     [timezone |-> [region |-> "Europe", zone |-> "Rome"]],
     [language |-> "en_US.UTF-8"],
     [keyboard |-> << [layout |-> "us", model |-> "pc105", variant |-> ""],
                      [layout |-> "it", model |-> "pc105", variant |-> "nodeadkeys"] >>]}

Answers ==
    EncryptionAnswers \cup AutoAnswers \cup SomeManualAnswers \cup ImageAnswers
    \cup OtherAnswers

SeqsUpTo(S, n) == UNION {[1..k -> S] : k \in 0..n}

Toggles == {"VANILLA_SKIP_POSTINSTALL", "VANILLA_FAKE"}

----------------------------------------------------------------------------
(* Specifications *)

\* the state gen_install_recipe starts in, for the finals fs
Start(fs) ==
    /\ finals = fs
    /\ is_uefi \in BOOLEAN
    /\ pc = "start"
    /\ i = 1
    /\ recipe = AlbiusRecipe
    /\ encrypt = FALSE
    /\ password = None
    /\ boot_disk = None
    /\ oci_image = images.default
    /\ partitions = NoPartitions
    /\ files = {}
    /\ outfile = None
    /\ result = None
    /\ error = ""
    /\ calls = <<>>

Init ==
    /\ environ \in SUBSET Toggles
    /\ \E fs \in SeqsUpTo(Answers, MaxFinals) : Start(fs)

Next ==
    \/ SetupEncryption
    \/ SetupDisks
    \/ Installation
    \/ CreateSystemdUnits
    \/ Layout
    \/ MapFinals
    \/ Finish
    \/ Merge
    \/ Output

Spec == Init /\ [][Next]_vars

\* gen_install_recipe on one disk answer, alone or after an encryption answer,
\* with no toggle set in the environment, on a UEFI machine
DiskFinals ==
    {<<d>> : d \in AutoAnswers \cup ManualAnswers}
    \cup {<<e, d>> : e \in {Encryption(TRUE, Some("secret")),
                            Encryption(TRUE, Some("")),
                            Encryption(TRUE, None)},
                     d \in AutoAnswers \cup ManualAnswers}

InitDisk ==
    /\ environ = {}
    /\ \E fs \in DiskFinals : Start(fs)
    /\ is_uefi

SpecDisk == InitDisk /\ [][Next]_vars

\* a fresh AlbiusRecipe and any calls of its post-install methods
InitBuilder ==
    /\ finals = <<>>
    /\ environ = {}
    /\ is_uefi = TRUE
    /\ pc = "api"
    /\ i = 1
    /\ recipe = AlbiusRecipe
    /\ encrypt = FALSE
    /\ password = None
    /\ boot_disk = None
    /\ oci_image = images.default
    /\ partitions = NoPartitions
    /\ files = {}
    /\ outfile = None
    /\ result = None
    /\ error = ""
    /\ calls = <<>>

NextBuilder ==
    \/ CallAddPostinstallStep
    \/ CallMergePostinstallSteps

SpecBuilder == InitBuilder /\ [][NextBuilder]_vars

----------------------------------------------------------------------------
(* Claims about the builder, under SpecBuilder *)

StepOf(c) == PostInstallStep(c.operation, c.params, c.chroot)

\* the steps the add calls of the history h passed with the given late flag
RECURSIVE Added(_, _)
Added(h, late) ==
    IF h = <<>> THEN <<>>
    ELSE (IF h[1].kind = "add" /\ h[1].call.late = late
          THEN <<StepOf(h[1].call)>> ELSE <<>>)
         \o Added(Tail(h), late)

\* the history is some add calls followed by one merge call
AddsThenOneMerge ==
    /\ calls # <<>>
    /\ calls[Len(calls)].kind = "merge"
    /\ \A k \in 1..(Len(calls) - 1) : calls[k].kind = "add"

\* C1: after any add calls (late or not, in any interleaving) and then one
\* merge, postInstallation is the non-late steps in the order they were added
\* followed by the late steps in the order they were added: every added step
\* once, every late step after every non-late one, each group in call order.
C1_MergeOrder ==
    AddsThenOneMerge =>
        /\ error = ""
        /\ recipe.postInstallation = Added(calls, FALSE) \o Added(calls, TRUE)

\* a late step was added before a non-late one, then the two buckets merged
C1_Witness ==
    /\ AddsThenOneMerge
    /\ \E j, k \in DOMAIN calls :
          /\ j < k /\ k < Len(calls)
          /\ calls[j].call.late /\ ~calls[k].call.late
          /\ StepOf(calls[j].call) # StepOf(calls[k].call)

\* the index of the first merge call of the history, 0 when there is none
FirstMerge ==
    IF \E k \in DOMAIN calls : calls[k].kind = "merge"
    THEN CHOOSE k \in DOMAIN calls :
            /\ calls[k].kind = "merge"
            /\ \A j \in 1..(k - 1) : calls[j].kind = "add"
    ELSE 0

AfterMerge == IF FirstMerge = 0 THEN {} ELSE (FirstMerge + 1)..Len(calls)

\* C8 as stated: once merged the builder is closed; every later call is
\* treated alike (all rejected or all ignored) and none changes the merged
\* postInstallation.
C8_Closed ==
    /\ \A k \in AfterMerge : calls[k].post = calls[FirstMerge].post
    /\ \A j, k \in AfterMerge : calls[j].raised = calls[k].raised

\* C8 amended: once merged, an add with late=True and a second merge raise
\* AttributeError and leave postInstallation as it was, while an add with
\* late=False is accepted and appends its step to the merged postInstallation.
C8_AfterMerge ==
    \A k \in AfterMerge :
        IF calls[k].kind = "add" /\ ~calls[k].call.late
        THEN /\ ~calls[k].raised
             /\ calls[k].post = Append(calls[k - 1].post, StepOf(calls[k].call))
        ELSE /\ calls[k].raised
             /\ calls[k].post = calls[k - 1].post

\* after the merge: a late add, a second merge and a non-late add, all made
C8_Witness ==
    /\ \E k \in AfterMerge : calls[k].kind = "add" /\ calls[k].call.late
    /\ \E k \in AfterMerge : calls[k].kind = "merge"
    /\ \E k \in AfterMerge : calls[k].kind = "add" /\ ~calls[k].call.late

----------------------------------------------------------------------------
(* Claims about partition planning, under SpecDisk: the finals hold one    *)
(* disk answer, alone or after one encryption answer                       *)

\* the disk loop is over and nothing was raised
PlanningDone == pc \in {"units", "layout", "finals", "abimage", "merge", "output",
                   "returned"}

DiskAnswersOf(fs) == {k \in DOMAIN fs : "disk" \in DOMAIN fs[k]}

\* the one disk answer of the finals
TheDisk == finals[CHOOSE k \in DiskAnswersOf(finals) : TRUE].disk

OneDisk == Cardinality(DiskAnswersOf(finals)) = 1

IsAuto == OneDisk /\ "auto" \in DOMAIN TheDisk
IsManual == OneDisk /\ "auto" \notin DOMAIN TheDisk

\* the number of entries of the manual answer with the mount target mp
Entries(mp) ==
    Cardinality({k \in DOMAIN TheDisk.parts : TheDisk.parts[k].values.mp = mp})

RootMounts == SelectSeq(recipe.mountpoints, LAMBDA m : m.target = "/")

RootA == [partition |-> "/dev/vos-root/root-a", target |-> "/"]
RootB == [partition |-> "/dev/vos-root/root-b", target |-> "/"]

\* C2 as stated: whenever the finals hold a disk answer, auto or manual with
\* any entries, the planned recipe has exactly two "/" mountpoints, root-a
\* then root-b.
C2_TwoRoots ==
    (PlanningDone /\ DiskAnswersOf(finals) # {}) => RootMounts = <<RootA, RootB>>

\* C2 amended: when the only disk answer is auto, or manual with exactly one
\* entry whose mount target is "/", the planned recipe has exactly two "/"
\* mountpoints, root-a first and root-b second.
C2_TwoRootsOneRootEntry ==
    (PlanningDone /\ OneDisk /\ (IsAuto \/ Entries("/") = 1))
        => RootMounts = <<RootA, RootB>>

\* a manual answer with one "/" entry after another entry has been planned
C2_Witness ==
    /\ PlanningDone
    /\ IsManual
    /\ Entries("/") = 1
    /\ Len(TheDisk.parts) = 2
    /\ TheDisk.parts[2].values.mp = "/"
    /\ Len(recipe.mountpoints) = 3

\* the answer that decides encryption: the last encryption answer
EncryptionAnswersOf(fs) == {k \in DOMAIN fs : "encryption" \in DOMAIN fs[k]}

LastEncryption ==
    finals[CHOOSE k \in EncryptionAnswersOf(finals) :
              \A j \in EncryptionAnswersOf(finals) : j <= k].encryption

\* encryption is requested and the key is missing, None or empty
EncryptionWithoutKey ==
    /\ EncryptionAnswersOf(finals) # {}
    /\ LastEncryption.use_encryption
    /\ \/ "encryption_key" \notin DOMAIN LastEncryption
       \/ ~Truthy(LastEncryption.encryption_key)

LuksOperations == {"luks-format", "lvm-luks-format"}

\* C3: when encryption is requested without a key, planning a disk answer
\* (auto or manual) fails, and no recipe ever has a LUKS format step whose
\* password parameter is empty.
C3_NoEmptyCredential ==
    /\ (EncryptionWithoutKey /\ DiskAnswersOf(finals) # {}) => ~PlanningDone
    /\ \A k \in DOMAIN recipe.setup :
          recipe.setup[k].operation \in LuksOperations
              => recipe.setup[k].params[3] # ""

LastSetup == recipe.setup[Len(recipe.setup)]

VarFormats ==
    SelectSeq(recipe.setup, LAMBDA st : st.params[1] = "vos-var/var")

\* C4: in auto mode, without encryption no setup step is a luks operation and
\* the last setup step is lvm-format [vos-var/var, btrfs, vos-var]; with
\* encryption and a non-empty password the one step on vos-var/var is
\* lvm-luks-format [vos-var/var, btrfs, password, vos-var].
C4_AutoVarFormat ==
    (PlanningDone /\ IsAuto) =>
        IF ~encrypt
        THEN /\ \A k \in DOMAIN recipe.setup :
                   recipe.setup[k].operation \notin LuksOperations
             /\ LastSetup.operation = "lvm-format"
             /\ LastSetup.params = <<"vos-var/var", "btrfs", "vos-var">>
        ELSE /\ Truthy(password)
             /\ Len(VarFormats) = 1
             /\ VarFormats[1].operation = "lvm-luks-format"
             /\ VarFormats[1].params =
                    <<"vos-var/var", "btrfs", password[1], "vos-var">>
             /\ VarFormats[1] = LastSetup

\* an encrypted auto layout has been planned
C4_Witness ==
    /\ PlanningDone
    /\ IsAuto
    /\ encrypt
    /\ password = Some("secret")
    /\ LastSetup.operation = "lvm-luks-format"

\* the path of partition n of the disk d, by the naming rule
PartPath(d, n) ==
    IF d[Len(d)] \in Digits THEN Str(d) \o "p" \o n ELSE Str(d) \o n

ParamsOf(operation) ==
    LET sel == SelectSeq(recipe.setup, LAMBDA st : st.operation = operation)
    IN  [k \in DOMAIN sel |-> sel[k].params]

MountsOn(target) ==
    LET sel == SelectSeq(recipe.mountpoints, LAMBDA m : m.target = target)
    IN  [k \in DOMAIN sel |-> sel[k].partition]

\* C5: in auto mode every partition path is disk + "p" + N when the disk
\* identifier ends in a digit and disk + N otherwise: the pvcreate and
\* vgcreate parameters (partitions 3 and 4) and the /boot and /boot/efi
\* mountpoints (partitions 1 and 2) all follow the one rule.
C5_PartitionPaths ==
    (PlanningDone /\ IsAuto) =>
        LET d == TheDisk.auto.disk
        IN  /\ ParamsOf("pvcreate") = << <<PartPath(d, "3")>>, <<PartPath(d, "4")>> >>
            /\ ParamsOf("vgcreate") = << <<"vos-root", <<PartPath(d, "3")>>>>,
                                         <<"vos-var", <<PartPath(d, "4")>>>> >>
            /\ MountsOn("/boot") = <<PartPath(d, "1")>>
            /\ MountsOn("/boot/efi") =
                   IF is_uefi THEN <<PartPath(d, "2")>> ELSE <<>>

\* an NVMe-style disk planned on a UEFI system
C5_Witness ==
    /\ PlanningDone
    /\ IsAuto
    /\ TheDisk.auto.disk = nvme0n1
    /\ is_uefi
    /\ MountsOn("/boot/efi") = <<"nvme0n1p2">>
    /\ ParamsOf("pvcreate")[1] = <<"nvme0n1p3">>

DigitStr == <<"1", "2", "3", "4", "5", "6", "7", "8", "9">>

RemovalOperations == {"vgremove", "pvremove"}

\* how many of the first k setup steps are mkpart steps on the disk of step k
MkpartCount(k) ==
    Cardinality({j \in 1..k : /\ recipe.setup[j].operation = "mkpart"
                              /\ recipe.setup[j].disk = recipe.setup[k].disk})

\* what setup step k brings into being
Creates(k) ==
    LET st == recipe.setup[k]
        op == st.operation
    IN  IF op = "label" THEN {"label:" \o st.disk}
        ELSE IF op = "mkpart"
        THEN IF IsAuto
             THEN {"part:" \o PartPath(TheDisk.auto.disk, DigitStr[MkpartCount(k)])}
             ELSE {}
        ELSE IF op = "pvcreate" THEN {"pv:" \o st.params[1]}
        ELSE IF op = "vgcreate" THEN {"vg:" \o st.params[1]}
        ELSE IF op \in {"lvcreate", "lvcreate-thin"}
        THEN {"lv:" \o st.params[2] \o "/" \o st.params[1]}
        ELSE IF op = "make-thin-pool" THEN {"pool:" \o st.params[1]}
        ELSE {}

\* the partitions setup step k works on
PartNeeds(k) ==
    LET st == recipe.setup[k]
        op == st.operation
    IN  IF op = "pvcreate" THEN {"part:" \o st.params[1]}
        ELSE IF op \in {"setflag", "format", "luks-format"}
        THEN IF IsAuto THEN {"part:" \o PartPath(TheDisk.auto.disk, st.params[1])}
             ELSE {"part:" \o st.disk \o st.params[1]}
        ELSE {}

\* the LVM objects setup step k works on
LvmNeeds(k) ==
    LET st == recipe.setup[k]
        op == st.operation
    IN  IF op = "vgcreate"
        THEN {"pv:" \o st.params[2][j] : j \in DOMAIN st.params[2]}
        ELSE IF op = "lvcreate" THEN {"vg:" \o st.params[2]}
        ELSE IF op = "make-thin-pool"
        THEN {"lv:" \o st.params[1], "lv:" \o st.params[2]}
        ELSE IF op = "lvcreate-thin"
        THEN {"pool:" \o st.params[2] \o "/" \o st.params[4]}
        ELSE IF op \in {"lvm-format", "lvm-luks-format"}
        THEN {"lv:" \o st.params[1]}
        ELSE {}

CreatedBefore(k, object) == \E j \in 1..(k - 1) : object \in Creates(j)

LabelledBefore(k) ==
    \E j \in 1..(k - 1) : /\ recipe.setup[j].operation = "label"
                          /\ recipe.setup[j].disk = recipe.setup[k].disk

\* the steps that set something up, as opposed to removing what was there
Building == {k \in DOMAIN recipe.setup :
                recipe.setup[k].operation \notin RemovalOperations}

\* C10 as stated: for a single disk answer, auto or manual, every setup step
\* that works on a partition or an LVM object comes after the step that
\* writes the disk label and after the steps that create what it works on
\* (mkpart, pvcreate, vgcreate, lvcreate, make-thin-pool, in that chain).
C10_CreatedBeforeUse ==
    (PlanningDone /\ OneDisk) =>
        \A k \in Building :
            /\ recipe.setup[k].operation # "label" => LabelledBefore(k)
            /\ \A o \in PartNeeds(k) \cup LvmNeeds(k) : CreatedBefore(k, o)

\* C10 amended: in auto mode every setup step other than the leading
\* vgremove/pvremove steps comes after the label step and after the steps
\* that create what it works on (mkpart before pvcreate, pvcreate before
\* vgcreate, vgcreate before lvcreate, lvcreate of root and root-meta before
\* make-thin-pool, make-thin-pool before lvcreate-thin, creation before
\* format); in manual mode no label and no mkpart step is emitted, the
\* partitions being taken as they are, and every step comes after the steps
\* that create the LVM objects it works on.
C10_CreatedBeforeUseByMode ==
    (PlanningDone /\ OneDisk) =>
        IF IsAuto
        THEN \A k \in Building :
                /\ recipe.setup[k].operation # "label" => LabelledBefore(k)
                /\ \A o \in PartNeeds(k) \cup LvmNeeds(k) : CreatedBefore(k, o)
        ELSE \A k \in Building :
                /\ recipe.setup[k].operation \notin {"label", "mkpart"}
                /\ \A o \in LvmNeeds(k) : CreatedBefore(k, o)

\* a manual answer with a "/" entry and a /var entry was planned with
\* encryption: its thin pool, its thin volumes and its formats are all there
C10_Witness ==
    /\ PlanningDone
    /\ IsManual
    /\ Entries("/") = 1
    /\ Entries("/var") = 1
    /\ \E k \in DOMAIN recipe.setup : recipe.setup[k].operation = "make-thin-pool"
    /\ \E k \in DOMAIN recipe.setup : recipe.setup[k].operation = "luks-format"

----------------------------------------------------------------------------
(* Claims about gen_install_recipe as a whole, under Spec *)

AdduserSteps ==
    SelectSeq(recipe.postInstallation, LAMBDA st : st.operation = "adduser")

UserStep(u) ==
    [chroot |-> TRUE, operation |-> "adduser",
     params |-> <<u.username, u.fullname, <<"sudo", "lpadmin">>, u.password>>]

UsersAnswers == {finals[k].users : k \in {j \in DOMAIN finals : "users" \in DOMAIN finals[j]}}

\* C6 as stated: for every users answer the merged post-install sequence
\* holds exactly one adduser step made of its username, fullname and password.
C6_AdduserPerUser ==
    pc = "returned" =>
        \A u \in UsersAnswers :
            Cardinality({k \in DOMAIN AdduserSteps : AdduserSteps[k] = UserStep(u)}) = 1

\* C6 amended: a users answer adds no post-install step.  Whatever users
\* answers the finals hold, the adduser steps of the merged sequence are the
\* one step of the default user {adduser, [vanilla, vanilla, [sudo, lpadmin],
\* vanilla], chroot} when VANILLA_SKIP_POSTINSTALL is not set, and none at all
\* when it is set.
C6_OnlyDefaultUser ==
    pc \in {"output", "returned"} =>
        AdduserSteps =
            IF "VANILLA_SKIP_POSTINSTALL" \notin environ
            THEN <<[chroot |-> TRUE, operation |-> "adduser",
                    params |-> <<"vanilla", "vanilla", <<"sudo", "lpadmin">>,
                                 "vanilla">>]>>
            ELSE <<>>

\* a recipe was returned for finals holding the users answer alex
C6_Witness ==
    /\ pc = "returned"
    /\ alex \in UsersAnswers
    /\ "VANILLA_SKIP_POSTINSTALL" \notin environ
    /\ Len(AdduserSteps) = 1

NvidiaOn(final) == "nvidia" \in DOMAIN final /\ final.nvidia["use-proprietary"]
VmOn(final) == "vm" \in DOMAIN final /\ final.vm["use-vm-tools"]

Source == recipe.installation[1].source

\* C7 as stated: with an nvidia answer and a vm answer both true the source
\* is the vm image wherever the two stand in the finals; with only nvidia
\* true it is the nvidia image; with neither it is the default image.
C7_VmOverridesNvidia ==
    recipe.installation # <<>> =>
        LET n == \E k \in DOMAIN finals : NvidiaOn(finals[k])
            v == \E k \in DOMAIN finals : VmOn(finals[k])
        IN  /\ (n /\ v) => Source = "ghcr.io/vanilla-os/vm:main"
            /\ (n /\ ~v) => Source = "ghcr.io/vanilla-os/nvidia:main"
            /\ (~n /\ ~v) => Source = "ghcr.io/vanilla-os/desktop:main"

ToggledOn == {k \in DOMAIN finals : NvidiaOn(finals[k]) \/ VmOn(finals[k])}

\* C7 amended: the source is the image of the last answer of the finals whose
\* toggle is true (nvidia with use-proprietary, vm with use-vm-tools): vm
\* overrides nvidia when it comes later in the list and nvidia overrides vm
\* when it comes later; with only nvidia true the source is the nvidia image
\* and with no toggle true it is the default image.
C7_LastToggleWins ==
    recipe.installation # <<>> =>
        IF ToggledOn = {}
        THEN Source = "ghcr.io/vanilla-os/desktop:main"
        ELSE LET last == CHOOSE k \in ToggledOn : \A j \in ToggledOn : j <= k
             IN  Source = IF NvidiaOn(finals[last])
                          THEN "ghcr.io/vanilla-os/nvidia:main"
                          ELSE "ghcr.io/vanilla-os/vm:main"

\* both toggles true, the nvidia answer after the vm answer
C7_Witness ==
    /\ recipe.installation # <<>>
    /\ \E j, k \in DOMAIN finals : j < k /\ VmOn(finals[j]) /\ NvidiaOn(finals[k])
    /\ Source = "ghcr.io/vanilla-os/nvidia:main"

RecipeFile == [name |-> TempFileName, mode |-> Mode0755, content |-> recipe]

\* C9 as stated: with VANILLA_FAKE set no file at all is written, neither the
\* recipe nor a side file under /tmp, and None is returned; without it the
\* recipe is written to a temporary file of mode 0755 whose path is returned.
C9_DryRunWritesNothing ==
    pc = "returned" =>
        IF "VANILLA_FAKE" \in environ
        THEN files = {} /\ outfile = None /\ result = None
        ELSE outfile = Some(RecipeFile) /\ result = Some(TempFileName)

\* C9 amended: with VANILLA_FAKE set the recipe file is not written and None
\* is returned, but the side files under /tmp are written all the same: the
\* four systemd mount units and abimage.abr, and boot-grub.cfg and abroot.cfg
\* unless VANILLA_SKIP_POSTINSTALL is set.  Without VANILLA_FAKE the recipe is
\* written to a temporary file of mode 0755 whose path is returned.
C9_DryRunWritesSideFiles ==
    pc = "returned" =>
        /\ files = {"/tmp/home.mount", "/tmp/opt.mount",
                    "/tmp/\\x2esystem-usr-lib-locale.mount",
                    "/tmp/\\x2esystem-etc.mount", "/tmp/abimage.abr"}
                   \cup (IF "VANILLA_SKIP_POSTINSTALL" \in environ THEN {}
                         ELSE {"/tmp/boot-grub.cfg", "/tmp/abroot.cfg"})
        /\ IF "VANILLA_FAKE" \in environ
           THEN outfile = None /\ result = None
           ELSE outfile = Some(RecipeFile) /\ result = Some(TempFileName)

\* a dry run has returned
C9_Witness ==
    /\ pc = "returned"
    /\ "VANILLA_FAKE" \in environ
    /\ result = None
    /\ "/tmp/abimage.abr" \in files

----------------------------------------------------------------------------
(* Claims about the manual planner's removal steps, under SpecDisk *)

\* the existing volume groups the manual answer's partitions refer to
ExistingVgs ==
    {TheDisk.parts[k].values.existing_vg[1] :
        k \in {j \in DOMAIN TheDisk.parts :
                  /\ ~IsNone(TheDisk.parts[j].values.existing_pv)
                  /\ ~IsNone(TheDisk.parts[j].values.existing_vg)}}

StepsAt(operation) ==
    {k \in DOMAIN recipe.setup : recipe.setup[k].operation = operation}

\* C11: in manual mode each existing volume group, however many partitions
\* refer to it, gets exactly one vgremove step; every vgremove step precedes
\* every pvremove step; every removal step precedes every other setup step.
C11_RemovalsDeduplicated ==
    (PlanningDone /\ IsManual) =>
        /\ \A vg \in ExistingVgs :
              Cardinality({k \in StepsAt("vgremove") :
                              recipe.setup[k].params = <<vg>>}) = 1
        /\ \A j \in StepsAt("vgremove") : \A k \in StepsAt("pvremove") : j < k
        /\ \A j \in StepsAt("vgremove") \cup StepsAt("pvremove") :
              \A k \in Building : j < k

(* Claims about finals without a disk answer, under Spec *)
NoDiskAnswer == \A k \in DOMAIN finals : "disk" \notin DOMAIN finals[k]

SelectedImage ==
    IF ToggledOn = {} THEN images.default
    ELSE LET last == CHOOSE k \in ToggledOn : \A j \in ToggledOn : j <= k
         IN  IF NvidiaOn(finals[last]) THEN images.nvidia ELSE images.vm

InstallationSet == pc \in {"units", "layout", "finals", "abimage", "merge",
                           "output", "returned"}

\* C12: when the finals hold no disk answer, gen_install_recipe raises nothing
\* and always has a next step until it returns; the recipe's setup list and
\* mountpoints list stay empty and, once set, its installation descriptor has
\* method oci and the selected image as source.
C12_NoDiskStillPlans ==
    NoDiskAnswer =>
        /\ pc # "raised" /\ error = ""
        /\ pc # "returned" => ENABLED Next
        /\ recipe.setup = <<>>
        /\ recipe.mountpoints = <<>>
        /\ InstallationSet =>
              /\ Len(recipe.installation) = 1
              /\ recipe.installation[1].method = "oci"
              /\ recipe.installation[1].source = SelectedImage

\* gen_install_recipe has returned for finals of other answers but no disk
C12_Witness ==
    /\ NoDiskAnswer
    /\ finals # <<>>
    /\ pc = "returned"
    /\ recipe.setup = <<>>
    /\ recipe.mountpoints = <<>>
    /\ recipe.installation[1].method = "oci"

(* Claims about the operation names of the setup steps, under SpecDisk *)
Vocabulary ==
    {"label", "mkpart", "setflag", "pvcreate", "vgcreate", "lvcreate",
     "lvcreate-thin", "make-thin-pool", "lvm-format", "lvm-luks-format",
     "pvremove", "vgremove"}

SetupOperations == {recipe.setup[k].operation : k \in DOMAIN recipe.setup}

\* C13 as stated: every setup step, in auto and in manual mode, has an
\* operation name of the fixed vocabulary.
C13_FixedVocabulary == SetupOperations \subseteq Vocabulary

\* C13 amended: every setup step planned for an auto answer has an operation
\* name of the fixed vocabulary; every setup step planned for a manual answer
\* has one of the vocabulary or one of format and luks-format, the names
\* setup_partition gives to the formatting of a plain partition.
C13_VocabularyByMode ==
    /\ IsAuto => SetupOperations \subseteq Vocabulary
    /\ IsManual => SetupOperations \subseteq Vocabulary \cup {"format", "luks-format"}

\* a manual plan with both a format and a luks-format step
C13_Witness ==
    /\ PlanningDone
    /\ IsManual
    /\ {"format", "luks-format"} \subseteq SetupOperations

(* Claims about the late post-install steps, under Spec *)
Merged == pc \in {"output", "returned"}

IsAdduserVanilla(st) ==
    /\ st.operation = "adduser"
    /\ st.chroot
    /\ st.params = <<"vanilla", "vanilla", <<"sudo", "lpadmin">>, "vanilla">>

IsAutostart(st) ==
    /\ st.operation = "shell"
    /\ st.chroot
    /\ st.params =
          <<"mkdir -p /home/vanilla/.config/autostart",
            "cp /usr/share/applications/org.vanillaos.FirstSetup.desktop /home/vanilla/.config/autostart">>

IsChownHome(st) ==
    /\ st.operation = "shell"
    /\ st.chroot
    /\ st.params = <<"chown -R vanilla:vanilla /home/vanilla">>

MountsEtcOverlay(st) ==
    /\ st.operation = "shell"
    /\ st.chroot
    /\ \E c \in DOMAIN st.params :
          st.params[c] = "mount -t overlay overlay -o lowerdir=/.system/etc,upperdir=/var/lib/abroot/etc/vos-a,workdir=/var/lib/abroot/etc/vos-a-work /etc"

\* C14: in the merged post-install sequence built without the skip toggle the
\* last three steps are, in this order, the adduser step of the user vanilla,
\* the first-setup autostart step and the chown of /home/vanilla; none of the
\* three occurs earlier, so every other step precedes the adduser step, and
\* among those earlier steps is the chroot shell step that mounts the /etc
\* overlay.
C14_LateStepsLast ==
    (Merged /\ "VANILLA_SKIP_POSTINSTALL" \notin environ) =>
        LET p == recipe.postInstallation
            n == Len(p)
        IN  /\ n >= 4
            /\ IsAdduserVanilla(p[n - 2])
            /\ IsAutostart(p[n - 1])
            /\ IsChownHome(p[n])
            /\ \E k \in 1..(n - 3) : MountsEtcOverlay(p[k])
            /\ \A k \in 1..(n - 3) :
                  ~IsAdduserVanilla(p[k]) /\ ~IsAutostart(p[k]) /\ ~IsChownHome(p[k])

\* a merged sequence, built without the skip toggle for finals with a timezone
\* answer, whose step before the adduser step is not the overlay step
C14_Witness ==
    /\ Merged
    /\ "VANILLA_SKIP_POSTINSTALL" \notin environ
    /\ \E k \in DOMAIN finals : "timezone" \in DOMAIN finals[k]
    /\ LET p == recipe.postInstallation
           n == Len(p)
       IN  /\ IsAdduserVanilla(p[n - 2])
           /\ ~MountsEtcOverlay(p[n - 3])
           /\ \E k \in 1..(n - 4) : MountsEtcOverlay(p[k])

(* Claims about manual entries with an unhandled mount target, under SpecDisk *)
HandledTargets == {"/", "/boot", "/boot/efi", "/var", "swap"}

Unhandled == {k \in DOMAIN TheDisk.parts :
                 TheDisk.parts[k].values.mp \notin HandledTargets}

Delete(s, k) == SubSeq(s, 1, k - 1) \o SubSeq(s, k + 1, Len(s))

\* the planner has just returned and its result has gone into the recipe
JustPlanned == pc = "disks" /\ i > Len(finals)

\* the recipe and the boot disk the same mapping without its entry k gives
RecipeWithout(k) ==
    add_part_info(AlbiusRecipe,
                  gen_manual_partition_steps(Delete(TheDisk.parts, k), encrypt,
                                             password))

BootDiskWithout(k) ==
    gen_manual_partition_steps(Delete(TheDisk.parts, k), encrypt, password).boot_disk

\* C15 as stated: a manual entry with an unhandled mount target changes
\* nothing, whatever its other fields: setup steps, mountpoints, post-install
\* steps and boot disk are those of the mapping without the entry.
C15_UnknownTargetDropped ==
    (JustPlanned /\ IsManual) =>
        \A k \in Unhandled :
            /\ recipe = RecipeWithout(k)
            /\ boot_disk = BootDiskWithout(k)

\* C15 amended: for a manual entry with an unhandled mount target the
\* mountpoints, post-install steps and boot disk are those of the mapping
\* without the entry; the setup steps are the same too when the entry has no
\* existing physical volume, and otherwise are those of the mapping without
\* the entry plus, among the removal steps, one pvremove step of the entry's
\* existing physical volume and, when it names an existing volume group, one
\* vgremove step of it before the pvremove step.
C15_UnknownTargetKeepsRemovals ==
    (JustPlanned /\ IsManual) =>
        \A k \in Unhandled :
            LET values == TheDisk.parts[k].values
                pv == values.existing_pv
                vg == values.existing_vg
                other == RecipeWithout(k)
                IsPvremove(b) == /\ recipe.setup[b].operation = "pvremove"
                                 /\ recipe.setup[b].params = <<Str(pv[1])>>
                IsVgremove(a) == /\ recipe.setup[a].operation = "vgremove"
                                 /\ recipe.setup[a].params = <<vg[1]>>
            IN  /\ recipe.mountpoints = other.mountpoints
                /\ recipe.postInstallation = other.postInstallation
                /\ recipe.latePostInstallation = other.latePostInstallation
                /\ boot_disk = BootDiskWithout(k)
                /\ IsNone(pv) => recipe.setup = other.setup
                /\ (~IsNone(pv) /\ IsNone(vg)) =>
                      \E b \in DOMAIN recipe.setup :
                          /\ IsPvremove(b)
                          /\ Delete(recipe.setup, b) = other.setup
                /\ (~IsNone(pv) /\ ~IsNone(vg)) =>
                      \E a, b \in DOMAIN recipe.setup :
                          /\ a < b
                          /\ IsVgremove(a)
                          /\ IsPvremove(b)
                          /\ Delete(Delete(recipe.setup, b), a) = other.setup

\* a planned manual mapping of a handled entry and an unhandled one that has
\* an existing physical volume in an existing volume group
C15_Witness ==
    /\ JustPlanned
    /\ IsManual
    /\ Len(TheDisk.parts) = 2
    /\ \E k \in Unhandled :
          /\ ~IsNone(TheDisk.parts[k].values.existing_pv)
          /\ ~IsNone(TheDisk.parts[k].values.existing_vg)
          /\ recipe.setup # RecipeWithout(k).setup
    /\ recipe.mountpoints # <<>>

\* C16: whatever toggles are set in the environment, a step of the merged
\* post-install sequence that chowns /home/vanilla to the user vanilla has an
\* adduser step of the user vanilla somewhere before it.
C16_ChownOnlyAfterAdduser ==
    Merged =>
        LET p == recipe.postInstallation
        IN  \A k \in DOMAIN p :
                IsChownHome(p[k]) => \E j \in 1..(k - 1) : IsAdduserVanilla(p[j])

====
